---- MODULE Spec2Model ----
(***************************************************************************)
(* Model of src/config.rs of shadowsocks-rust: the configuration loader    *)
(* (Config::load_from_str, Config::parse_json_object,                      *)
(* Config::parse_server) and the serializer (impl ToJson for Config and    *)
(* ServerConfig, ServerAddr::to_json_object_inner).                        *)
(*                                                                         *)
(* A document is JSON text; it is modelled as a token tree (JSON text      *)
(* seen after lexing), which Json::from_str turns into a Json value and    *)
(* Json's Display turns back into text.  Strings are drawn from a small    *)
(* universe on which the std::net address parsers are tabulated.           *)
(***************************************************************************)
EXTENDS Integers, Sequences, FiniteSets, TLC

VARIABLES
    input,        \* the JSON text handed to load_from_str (a token tree)
    config_type,  \* ConfigType of the load: "Local" or "Server"
    result,       \* what the load produced: Ok(Config), Err(Error), Panic or NoResult
    text,         \* Display of the loaded/built Config (JSON text), or NoText
    reload_type,  \* ConfigType used to load 'text' again
    reloaded,     \* result of load_from_str(text, reload_type), or NoResult
    pc            \* "start", "built", "loaded", "serialized", "reloaded"

vars == <<input, config_type, result, text, reload_type, reloaded, pc>>

---------------------------------------------------------------------------
(* Option and Result *)

None == [some |-> FALSE]
Some(x) == [some |-> TRUE, v |-> x]

Ok(x) == [kind |-> "Ok", val |-> x]
Err(e) == [kind |-> "Err", error |-> e]
\* panic!(msg): the load neither returns a Config nor an Error
Panic(msg) == [kind |-> "Panic", msg |-> msg]
NoResult == [kind |-> "NoResult"]
NoText == [k |-> "none"]
NoInput == [k |-> "none"]

Error(kind, desc, detail) == [kind |-> kind, desc |-> desc, detail |-> detail]

---------------------------------------------------------------------------
(* serialize::json::Json, the value tree *)

JNull == [t |-> "Null"]
JBoolean(b) == [t |-> "Boolean", b |-> b]
JU64(n) == [t |-> "U64", n |-> n]
JI64(n) == [t |-> "I64", n |-> n]
\* an f64 with a fractional part; h is the value in halves (h odd)
JF64(h) == [t |-> "F64", h |-> h]
JString(s) == [t |-> "String", s |-> s]
JArray(a) == [t |-> "Array", a |-> a]
JObject(o) == [t |-> "Object", o |-> o]

EmptyObject == << >>

\* json::Object::insert: the key's value is replaced if present
insert(o, k, v) == [x \in (DOMAIN o) \cup {k} |-> IF x = k THEN v ELSE o[x]]

as_u64(j) ==
    CASE j.t = "U64" -> Some(j.n)
      [] j.t = "I64" -> IF j.n >= 0 THEN Some(j.n) ELSE None
      [] OTHER -> None

as_string(j) == IF j.t = "String" THEN Some(j.s) ELSE None
as_array(j) == IF j.t = "Array" THEN Some(j.a) ELSE None
as_object(j) == IF j.t = "Object" THEN Some(j.o) ELSE None

---------------------------------------------------------------------------
(* JSON text, as a token tree *)

\* a number literal: optional minus sign, integer digits, and either no
\* fraction (frac = FALSE) or the fraction ".5" (frac = TRUE)
TNum(neg, mag, frac) == [k |-> "num", neg |-> neg, mag |-> mag, frac |-> frac]
TStr(s) == [k |-> "str", s |-> s]
TLit(w) == [k |-> "lit", w |-> w]
TArr(a) == [k |-> "arr", a |-> a]
TObj(o) == [k |-> "obj", o |-> o]
\* text that is not syntactically JSON
TBad == [k |-> "bad"]

TInt(n) == TNum(FALSE, n, FALSE)

RECURSIVE WellFormed(_)
WellFormed(T) ==
    CASE T.k = "bad" -> FALSE
      [] T.k = "arr" -> \A i \in DOMAIN T.a : WellFormed(T.a[i])
      [] T.k = "obj" -> \A key \in DOMAIN T.o : WellFormed(T.o[key])
      [] OTHER -> TRUE

\* json::Parser: an unsigned integer literal is U64, a negative one I64, a
\* literal with a fraction F64
RECURSIVE BuildJson(_)
BuildJson(T) ==
    CASE T.k = "num" ->
            IF T.frac THEN JF64((IF T.neg THEN -1 ELSE 1) * (2 * T.mag + 1))
            ELSE IF T.neg THEN JI64(0 - T.mag)
            ELSE JU64(T.mag)
      [] T.k = "str" -> JString(T.s)
      [] T.k = "lit" -> IF T.w = "null" THEN JNull ELSE JBoolean(T.w = "true")
      [] T.k = "arr" -> JArray([i \in DOMAIN T.a |-> BuildJson(T.a[i])])
      [] T.k = "obj" -> JObject([key \in DOMAIN T.o |-> BuildJson(T.o[key])])

\* Json::from_str
Json_from_str(s) ==
    IF WellFormed(s) THEN Ok(BuildJson(s))
    ELSE Err(Error("JsonParsingError", "Json parse error", Some(<<"{:?}", "SyntaxError">>)))

Abs(n) == IF n < 0 THEN 0 - n ELSE n

\* impl Display for Json (the compact encoder)
RECURSIVE Json_to_string(_)
Json_to_string(j) ==
    CASE j.t = "U64" -> TNum(FALSE, j.n, FALSE)
      [] j.t = "I64" -> TNum(j.n < 0, Abs(j.n), FALSE)
      [] j.t = "F64" -> TNum(j.h < 0, (Abs(j.h) - 1) \div 2, TRUE)
      [] j.t = "String" -> TStr(j.s)
      [] j.t = "Boolean" -> TLit(IF j.b THEN "true" ELSE "false")
      [] j.t = "Null" -> TLit("null")
      [] j.t = "Array" -> TArr([i \in DOMAIN j.a |-> Json_to_string(j.a[i])])
      [] j.t = "Object" -> TObj([key \in DOMAIN j.o |-> Json_to_string(j.o[key])])

---------------------------------------------------------------------------
(* Addresses.  The std::net parsers restricted to the string universe:     *)
(* every string outside the tables fails to parse.                         *)

Ipv4Table ==
    ("10.0.0.1" :> <<10, 0, 0, 1>>) @@ ("127.0.0.1" :> <<127, 0, 0, 1>>)

\* two spellings of the loopback address, and one global address
Ipv6Table ==
    ("::1" :> <<0, 0, 0, 0, 0, 0, 0, 1>>)
    @@ ("0:0:0:0:0:0:0:1" :> <<0, 0, 0, 0, 0, 0, 0, 1>>)
    @@ ("2001:db8::2" :> <<8193, 3512, 0, 0, 0, 0, 0, 2>>)

\* the spelling Display for Ipv6Addr prints
Ipv6Canonical == {"::1", "2001:db8::2"}

\* str::parse::<Ipv4Addr>()
Ipv4Addr_from_str(s) == IF s \in DOMAIN Ipv4Table THEN Some(Ipv4Table[s]) ELSE None
\* str::parse::<Ipv6Addr>()
Ipv6Addr_from_str(s) == IF s \in DOMAIN Ipv6Table THEN Some(Ipv6Table[s]) ELSE None

\* Ipv4Addr::to_string, Ipv6Addr::to_string
Ipv4Addr_to_string(ip) == CHOOSE s \in DOMAIN Ipv4Table : Ipv4Table[s] = ip
Ipv6Addr_to_string(ip) == CHOOSE s \in Ipv6Canonical : Ipv6Table[s] = ip

SocketAddrV4_new(ip, port) == [fam |-> "V4", ip |-> ip, port |-> port]
SocketAddrV6_new(ip, port, flowinfo, scope_id) ==
    [fam |-> "V6", ip |-> ip, port |-> port, flowinfo |-> flowinfo, scope_id |-> scope_id]

\* enum ServerAddr
ServerAddr_SocketAddr(sa) == [variant |-> "SocketAddr", addr |-> sa]
ServerAddr_DomainName(name, port) == [variant |-> "DomainName", name |-> name, port |-> port]

\* ip::IpAddr and its FromStr
IpAddr_V4(ip) == [fam |-> "V4", ip |-> ip]
IpAddr_V6(ip) == [fam |-> "V6", ip |-> ip]
IpAddr_from_str(s) ==
    IF Ipv4Addr_from_str(s).some THEN Some(IpAddr_V4(Ipv4Addr_from_str(s).v))
    ELSE IF Ipv6Addr_from_str(s).some THEN Some(IpAddr_V6(Ipv6Addr_from_str(s).v))
    ELSE None

\* u as u16: the low 16 bits
as_u16(u) == u % 65536

\* std::time::Duration
Duration_from_secs(n) == [secs |-> n, nanos |-> 0]
as_secs(d) == d.secs

---------------------------------------------------------------------------
(* The cipher registry, crypto::cipher::CipherType: its FromStr accepts    *)
(* the known cipher names and its Display prints the name.                 *)

CipherNames == {"aes-256-cfb", "aes-128-cfb"}
CipherType_from_str(s) == IF s \in CipherNames THEN Some(s) ELSE None
CipherType_to_string(m) == m

---------------------------------------------------------------------------
(* Data model *)

DEFAULT_DNS_CACHE_CAPACITY == 128

ServerConfig(addr, password, method, timeout) ==
    [addr |-> addr, password |-> password, method |-> method, timeout |-> timeout]

\* Config::new
Config_new ==
    [server |-> << >>,
     local |-> None,
     http_proxy |-> None,
     enable_udp |-> FALSE,
     timeout |-> None,
     forbidden_ip |-> {},
     dns_cache_capacity |-> DEFAULT_DNS_CACHE_CAPACITY]

---------------------------------------------------------------------------
(* Config::parse_server.  In the description strings the source's backquotes *)
(* are written as apostrophes.                                              *)

parse_method(server) ==
    IF "method" \notin DOMAIN server
    THEN Err(Error("MissingField", "need to specify a method", None))
    ELSE IF ~as_string(server["method"]).some
    THEN Err(Error("Malformed", "'method' should be a string", None))
    ELSE LET method_str == as_string(server["method"]).v IN
         IF CipherType_from_str(method_str).some
         THEN Ok(CipherType_from_str(method_str).v)
         ELSE Err(Error("Invalid", "not supported method",
                        Some(<<"'{}' is not a supported method", method_str>>)))

parse_port(server) ==
    IF "port" \notin DOMAIN server /\ "server_port" \notin DOMAIN server
    THEN Err(Error("MissingField", "need to specify a server port", None))
    ELSE LET port_o == IF "port" \in DOMAIN server THEN server["port"]
                       ELSE server["server_port"] IN
         IF as_u64(port_o).some
         THEN Ok(as_u16(as_u64(port_o).v))
         ELSE Err(Error("Malformed", "'port' should be an integer", None))

\* faulty variant of parse_addr: the IPv6 attempt is left out
parse_addr_v4_only(server, port) ==
    IF "address" \notin DOMAIN server /\ "server" \notin DOMAIN server
    THEN Err(Error("MissingField", "need to specify a server address", None))
    ELSE LET addr_o == IF "address" \in DOMAIN server THEN server["address"]
                       ELSE server["server"] IN
         IF ~as_string(addr_o).some
         THEN Err(Error("Malformed", "'address' should be a string", None))
         ELSE LET addr_str == as_string(addr_o).v IN
              IF Ipv4Addr_from_str(addr_str).some
              THEN Ok(ServerAddr_SocketAddr(
                          SocketAddrV4_new(Ipv4Addr_from_str(addr_str).v, port)))
              ELSE Ok(ServerAddr_DomainName(addr_str, port))

parse_addr(server, port) ==
    IF "address" \notin DOMAIN server /\ "server" \notin DOMAIN server
    THEN Err(Error("MissingField", "need to specify a server address", None))
    ELSE LET addr_o == IF "address" \in DOMAIN server THEN server["address"]
                       ELSE server["server"] IN
         IF ~as_string(addr_o).some
         THEN Err(Error("Malformed", "'address' should be a string", None))
         ELSE LET addr_str == as_string(addr_o).v IN
              IF Ipv4Addr_from_str(addr_str).some
              THEN Ok(ServerAddr_SocketAddr(
                          SocketAddrV4_new(Ipv4Addr_from_str(addr_str).v, port)))
              ELSE IF Ipv6Addr_from_str(addr_str).some
              THEN Ok(ServerAddr_SocketAddr(
                          SocketAddrV6_new(Ipv6Addr_from_str(addr_str).v, port, 0, 0)))
              ELSE Ok(ServerAddr_DomainName(addr_str, port))

parse_password(server) ==
    IF "password" \notin DOMAIN server
    THEN Err(Error("MissingField", "need to specify a password", None))
    ELSE IF as_string(server["password"]).some
    THEN Ok(as_string(server["password"]).v)
    ELSE Err(Error("Malformed", "'password' should be a string", None))

\* the optional 'timeout' key, read the same way by parse_server and by
\* parse_json_object
parse_timeout(o) ==
    IF "timeout" \notin DOMAIN o THEN Ok(None)
    ELSE IF as_u64(o["timeout"]).some
    THEN Ok(Some(Duration_from_secs(as_u64(o["timeout"]).v)))
    ELSE Err(Error("Malformed", "'timeout' should be an integer", None))

\* faulty variant of parse_server: the password is looked at first
parse_server_password_first(server) ==
    LET password == parse_password(server) IN
    IF password.kind = "Err" THEN password ELSE
    LET method == parse_method(server) IN
    IF method.kind = "Err" THEN method ELSE
    LET port == parse_port(server) IN
    IF port.kind = "Err" THEN port ELSE
    LET addr == parse_addr(server, port.val) IN
    IF addr.kind = "Err" THEN addr ELSE
    LET timeout == parse_timeout(server) IN
    IF timeout.kind = "Err" THEN timeout ELSE
    Ok(ServerConfig(addr.val, password.val, method.val, timeout.val))

parse_server(server) ==
    LET method == parse_method(server) IN
    IF method.kind = "Err" THEN method ELSE
    LET port == parse_port(server) IN
    IF port.kind = "Err" THEN port ELSE
    LET addr == parse_addr(server, port.val) IN
    IF addr.kind = "Err" THEN addr ELSE
    LET password == parse_password(server) IN
    IF password.kind = "Err" THEN password ELSE
    LET timeout == parse_timeout(server) IN
    IF timeout.kind = "Err" THEN timeout ELSE
    Ok(ServerConfig(addr.val, password.val, method.val, timeout.val))

---------------------------------------------------------------------------
(* Config::parse_json_object, stage by stage.  Each stage takes the Config *)
(* built so far and returns Ok(config), Err(error) or Panic.               *)

\* the keys whose presence selects the legacy single-server shape
LegacyKeyNames == {"server", "server_port", "password", "method"}

\* faulty variant of parse_global_timeout: the value is checked and not kept
parse_global_timeout_not_kept(o, config) ==
    LET t == parse_timeout(o) IN
    IF t.kind = "Err" THEN t ELSE Ok(config)

\* the global timeout
parse_global_timeout(o, config) ==
    LET t == parse_timeout(o) IN
    IF t.kind = "Err" THEN t ELSE Ok([config EXCEPT !.timeout = t.val])

\* faulty variant of parse_server_list: an element that is not an object
\* ends the loop
RECURSIVE parse_server_list_until_non_object(_, _, _)
parse_server_list_until_non_object(server_list, i, acc) ==
    IF i > Len(server_list) THEN Ok(acc)
    ELSE IF ~as_object(server_list[i]).some
    THEN Ok(acc)
    ELSE LET cfg == parse_server(as_object(server_list[i]).v) IN
         IF cfg.kind = "Err" THEN cfg
         ELSE parse_server_list_until_non_object(server_list, i + 1, Append(acc, cfg.val))

\* the loop over the elements of 'servers': elements that are not objects
\* are passed over, the first failing object ends the load
RECURSIVE parse_server_list(_, _, _)
parse_server_list(server_list, i, acc) ==
    IF i > Len(server_list) THEN Ok(acc)
    ELSE IF ~as_object(server_list[i]).some
    THEN parse_server_list(server_list, i + 1, acc)
    ELSE LET cfg == parse_server(as_object(server_list[i]).v) IN
         IF cfg.kind = "Err" THEN cfg
         ELSE parse_server_list(server_list, i + 1, Append(acc, cfg.val))

\* faulty variant of parse_servers: the legacy keys are looked at first
parse_servers_legacy_first(o, config) ==
    IF LegacyKeyNames \subseteq DOMAIN o
    THEN LET single_server == parse_server(o) IN
         IF single_server.kind = "Err" THEN single_server
         ELSE Ok([config EXCEPT !.server = <<single_server.val>>])
    ELSE IF "servers" \in DOMAIN o
    THEN IF ~as_array(o["servers"]).some
         THEN Err(Error("Malformed", "'servers' should be a list", None))
         ELSE LET lst == parse_server_list(as_array(o["servers"]).v, 1, config.server) IN
              IF lst.kind = "Err" THEN lst
              ELSE Ok([config EXCEPT !.server = lst.val])
    ELSE Ok(config)

\* faulty variant of parse_servers: 'method' is not among the keys that
\* select the legacy shape
parse_servers_three_keys(o, config) ==
    IF "servers" \in DOMAIN o
    THEN IF ~as_array(o["servers"]).some
         THEN Err(Error("Malformed", "'servers' should be a list", None))
         ELSE LET lst == parse_server_list(as_array(o["servers"]).v, 1, config.server) IN
              IF lst.kind = "Err" THEN lst
              ELSE Ok([config EXCEPT !.server = lst.val])
    ELSE IF (LegacyKeyNames \ {"method"}) \subseteq DOMAIN o
    THEN LET single_server == parse_server(o) IN
         IF single_server.kind = "Err" THEN single_server
         ELSE Ok([config EXCEPT !.server = <<single_server.val>>])
    ELSE Ok(config)

parse_servers(o, config) ==
    IF "servers" \in DOMAIN o
    THEN IF ~as_array(o["servers"]).some
         THEN Err(Error("Malformed", "'servers' should be a list", None))
         ELSE LET lst == parse_server_list(as_array(o["servers"]).v, 1, config.server) IN
              IF lst.kind = "Err" THEN lst
              ELSE Ok([config EXCEPT !.server = lst.val])
    ELSE IF LegacyKeyNames \subseteq DOMAIN o
    THEN \* Traditional configuration file
         LET single_server == parse_server(o) IN
         IF single_server.kind = "Err" THEN single_server
         ELSE Ok([config EXCEPT !.server = <<single_server.val>>])
    ELSE Ok(config)

\* a listen address from an address key and a port key that are both present
parse_bind_addr(o, addr_key, port_key, addr_desc, port_desc, ip_desc) ==
    IF ~as_string(o[addr_key]).some
    THEN Err(Error("Malformed", addr_desc, None))
    ELSE IF ~as_u64(o[port_key]).some
    THEN Err(Error("Malformed", port_desc, None))
    ELSE LET addr_str == as_string(o[addr_key]).v
             port == as_u16(as_u64(o[port_key]).v) IN
         IF Ipv4Addr_from_str(addr_str).some
         THEN Ok(Some(SocketAddrV4_new(Ipv4Addr_from_str(addr_str).v, port)))
         ELSE IF Ipv6Addr_from_str(addr_str).some
         THEN Ok(Some(SocketAddrV6_new(Ipv6Addr_from_str(addr_str).v, port, 0, 0)))
         ELSE Err(Error("Malformed", ip_desc, None))

\* faulty variant of parse_local: a lone key of the pair is passed over
parse_local_lenient(o, config) ==
    LET has_local_address == "local_address" \in DOMAIN o
        has_local_port == "local_port" \in DOMAIN o IN
    IF has_local_address /\ has_local_port
    THEN LET a == parse_bind_addr(o, "local_address", "local_port",
                                  "'local_address' should be a string",
                                  "'local_port' should be an integer",
                                  "'local_address' is not a valid IP address") IN
         IF a.kind = "Err" THEN a ELSE Ok([config EXCEPT !.local = a.val])
    ELSE Ok(config)

parse_local(o, config) ==
    LET has_local_address == "local_address" \in DOMAIN o
        has_local_port == "local_port" \in DOMAIN o IN
    IF has_local_address /\ has_local_port
    THEN LET a == parse_bind_addr(o, "local_address", "local_port",
                                  "'local_address' should be a string",
                                  "'local_port' should be an integer",
                                  "'local_address' is not a valid IP address") IN
         IF a.kind = "Err" THEN a ELSE Ok([config EXCEPT !.local = a.val])
    ELSE IF has_local_address # has_local_port
    THEN Panic("You have to provide 'local_address' and 'local_port' together")
    ELSE Ok(config)

parse_http_proxy(o, config) ==
    LET has_proxy_addr == "local_http_address" \in DOMAIN o
        has_proxy_port == "local_http_port" \in DOMAIN o IN
    IF has_proxy_addr /\ has_proxy_port
    THEN LET a == parse_bind_addr(o, "local_http_address", "local_http_port",
                                  "'local_http_address' should be a string",
                                  "'local_http_port' should be an integer",
                                  "'local_http_address' is not a valid IP address") IN
         IF a.kind = "Err" THEN a ELSE Ok([config EXCEPT !.http_proxy = a.val])
    ELSE IF has_proxy_addr # has_proxy_port
    THEN Panic("You have to provide 'local_http_address' and 'local_http_port' together")
    ELSE Ok(config)

\* elements that are not strings, or not IP literals, are passed over
parse_forbidden_ip(o, config) ==
    IF "forbidden_ip" \notin DOMAIN o THEN Ok(config)
    ELSE IF ~as_array(o["forbidden_ip"]).some
    THEN Err(Error("Malformed", "'forbidden_ip' should be a list", None))
    ELSE LET arr == as_array(o["forbidden_ip"]).v
             parsed == {IpAddr_from_str(as_string(arr[i]).v).v :
                           i \in {j \in DOMAIN arr :
                                     /\ as_string(arr[j]).some
                                     /\ IpAddr_from_str(as_string(arr[j]).v).some}} IN
         Ok([config EXCEPT !.forbidden_ip = config.forbidden_ip \cup parsed])

\* 'as usize' keeps the value on the 64-bit targets
parse_dns_cache_capacity(o, config) ==
    IF "dns_cache_capacity" \notin DOMAIN o
    THEN Ok([config EXCEPT !.dns_cache_capacity = DEFAULT_DNS_CACHE_CAPACITY])
    ELSE IF as_u64(o["dns_cache_capacity"]).some
    THEN Ok([config EXCEPT !.dns_cache_capacity = as_u64(o["dns_cache_capacity"]).v])
    ELSE Err(Error("Malformed", "'dns_cache_capacity' should be an integer", None))

\* try!: a stage runs on the Config of the stages before it, and an Err
\* (or a panic) of an earlier stage is the result of the whole
try_servers(o, r) == IF r.kind = "Ok" THEN parse_servers(o, r.val) ELSE r
try_http_proxy(o, r) == IF r.kind = "Ok" THEN parse_http_proxy(o, r.val) ELSE r
try_forbidden_ip(o, r) == IF r.kind = "Ok" THEN parse_forbidden_ip(o, r.val) ELSE r
try_dns_cache_capacity(o, r) ==
    IF r.kind = "Ok" THEN parse_dns_cache_capacity(o, r.val) ELSE r

\* faulty variant of parse_local_info: the mode flag is not looked at
parse_local_info_always(o, config, require_local_info) ==
    try_http_proxy(o, parse_local(o, config))

\* if require_local_info { ... }
parse_local_info(o, config, require_local_info) ==
    IF require_local_info
    THEN try_http_proxy(o, parse_local(o, config))
    ELSE Ok(config)

try_local_info(o, r, require_local_info) ==
    IF r.kind = "Ok" THEN parse_local_info(o, r.val, require_local_info) ELSE r

parse_json_object(o, require_local_info) ==
    try_dns_cache_capacity(o,
        try_forbidden_ip(o,
            try_local_info(o,
                try_servers(o, parse_global_timeout(o, Config_new)),
                require_local_info)))

\* Config::load_from_str
load_from_str(s, ctype) ==
    LET object == Json_from_str(s) IN
    IF object.kind = "Err" THEN object
    ELSE IF ~as_object(object.val).some
    THEN Err(Error("JsonParsingError", "root is not a JsonObject", None))
    ELSE parse_json_object(as_object(object.val).v, ctype = "Local")

---------------------------------------------------------------------------
(* The serializer *)

\* ServerAddr::to_json_object_inner
to_json_object_inner(addr, obj, addr_key, port_key) ==
    IF addr.variant = "SocketAddr"
    THEN IF addr.addr.fam = "V4"
         THEN insert(insert(obj, addr_key, JString(Ipv4Addr_to_string(addr.addr.ip))),
                     port_key, JU64(addr.addr.port))
         ELSE insert(insert(obj, addr_key, JString(Ipv6Addr_to_string(addr.addr.ip))),
                     port_key, JU64(addr.addr.port))
    ELSE insert(insert(obj, addr_key, JString(addr.name)), port_key, JU64(addr.port))

to_json_object(addr, obj) == to_json_object_inner(addr, obj, "address", "port")
\* faulty variant of to_json_object_old: the modern key names
to_json_object_old_modern_keys(addr, obj) == to_json_object_inner(addr, obj, "address", "port")
to_json_object_old(addr, obj) == to_json_object_inner(addr, obj, "server", "server_port")

\* the password, method and optional timeout of one server
insert_credentials(obj, server) ==
    LET o1 == insert(obj, "password", JString(server.password))
        o2 == insert(o1, "method", JString(CipherType_to_string(server.method))) IN
    IF server.timeout.some
    THEN insert(o2, "timeout", JU64(as_secs(server.timeout.v)))
    ELSE o2

\* impl ToJson for ServerConfig
ServerConfig_to_json(server) ==
    JObject(insert_credentials(to_json_object(server.addr, EmptyObject), server))

\* faulty variant of servers_to_json: the legacy shape whenever there is a
\* first server
servers_to_json_first_only(config) ==
    IF Len(config.server) >= 1
    THEN insert_credentials(to_json_object_old(config.server[1].addr, EmptyObject),
                            config.server[1])
    ELSE insert(EmptyObject, "servers",
                JArray([i \in DOMAIN config.server |-> ServerConfig_to_json(config.server[i])]))

\* the server part of impl ToJson for Config
servers_to_json(config) ==
    IF Len(config.server) = 1
    THEN \* Official format
         insert_credentials(to_json_object_old(config.server[1].addr, EmptyObject),
                            config.server[1])
    ELSE insert(EmptyObject, "servers",
                JArray([i \in DOMAIN config.server |-> ServerConfig_to_json(config.server[i])]))

\* faulty variant of to_json: the global timeout is written too
to_json_with_global_timeout(config) ==
    LET o1 == servers_to_json(config)
        o2 == IF config.local.some
              THEN LET l == config.local.v
                       ip_str == IF l.fam = "V4" THEN Ipv4Addr_to_string(l.ip)
                                 ELSE Ipv6Addr_to_string(l.ip) IN
                   insert(insert(o1, "local_address", JString(ip_str)),
                          "local_port", JU64(l.port))
              ELSE o1
        o3 == IF config.timeout.some
              THEN insert(o2, "timeout", JU64(as_secs(config.timeout.v)))
              ELSE o2
        o4 == insert(o3, "enable_udp", JBoolean(config.enable_udp))
    IN  JObject(insert(o4, "dns_cache_capacity", JU64(config.dns_cache_capacity)))

\* impl ToJson for Config
to_json(config) ==
    LET o1 == servers_to_json(config)
        o2 == IF config.local.some
              THEN LET l == config.local.v
                       ip_str == IF l.fam = "V4" THEN Ipv4Addr_to_string(l.ip)
                                 ELSE Ipv6Addr_to_string(l.ip) IN
                   insert(insert(o1, "local_address", JString(ip_str)),
                          "local_port", JU64(l.port))
              ELSE o1
        o3 == insert(o2, "enable_udp", JBoolean(config.enable_udp))
    IN  JObject(insert(o3, "dns_cache_capacity", JU64(config.dns_cache_capacity)))

\* impl fmt::Display for Config
Config_to_string(config) == Json_to_string(to_json(config))

---------------------------------------------------------------------------
(* The documents the loader is run on *)

\* longest 'servers' array of a document
MaxArrayLen == 2
\* longest server list of a Config built by a caller
MaxServers == 2

ConfigTypes == {"Local", "Server"}

\* a key that is absent, or present with one of the values S
Opt(k, S) == {EmptyObject} \cup {k :> v : v \in S}

\* the keys of one server entry
EntryFields ==
    {m @@ p @@ sp @@ a @@ sv @@ pw @@ t :
        m \in Opt("method", {TInt(1), TStr("not-a-cipher"), TStr("aes-256-cfb")}),
        p \in Opt("port", {TInt(8388), TInt(65535), TInt(65536), TInt(73924),
                           TStr("8388"), TNum(TRUE, 1, FALSE), TNum(FALSE, 80, TRUE)}),
        sp \in Opt("server_port", {TInt(443)}),
        a \in Opt("address", {TStr("10.0.0.1"), TStr("::1"), TStr("0:0:0:0:0:0:0:1"),
                              TStr("example.com"), TStr("256.0.0.1"), TInt(1)}),
        sv \in Opt("server", {TStr("127.0.0.1")}),
        pw \in Opt("password", {TStr("p"), TInt(1)}),
        t \in Opt("timeout", {TInt(300), TStr("x")})}

\* one entry as the only element of 'servers', or as the root itself
EntryDocuments ==
    {TObj("servers" :> TArr(<<TObj(e)>>)) : e \in EntryFields}
    \cup {TObj(e) : e \in EntryFields}

ValidA ==
    TObj(("address" :> TStr("10.0.0.1")) @@ ("port" :> TInt(8388))
         @@ ("password" :> TStr("p")) @@ ("method" :> TStr("aes-256-cfb")))
ValidB ==
    TObj(("address" :> TStr("example.com")) @@ ("port" :> TInt(443))
         @@ ("password" :> TStr("q")) @@ ("method" :> TStr("aes-128-cfb"))
         @@ ("timeout" :> TInt(60)))
ValidC ==
    TObj(("server" :> TStr("::1")) @@ ("server_port" :> TInt(8389))
         @@ ("password" :> TStr("p")) @@ ("method" :> TStr("aes-256-cfb")))
NoPassword ==
    TObj(("address" :> TStr("10.0.0.1")) @@ ("port" :> TInt(8388))
         @@ ("method" :> TStr("aes-256-cfb")))

Elements == {ValidA, ValidB, ValidC, NoPassword, TInt(7), TLit("null")}

ServersValues ==
    {TInt(5)} \cup {TArr(a) : a \in UNION {[1..n -> Elements] : n \in 0..MaxArrayLen}}

\* a 'servers' value together with top-level legacy keys and a global timeout
ArrayDocuments ==
    {TObj(("servers" :> sv) @@ s @@ sp @@ pw @@ m @@ t) :
        sv \in ServersValues,
        s \in Opt("server", {TStr("10.0.0.1"), TInt(1)}),
        sp \in Opt("server_port", {TInt(8388)}),
        pw \in Opt("password", {TInt(1)}),
        m \in Opt("method", {TStr("aes-256-cfb"), TStr("not-a-cipher")}),
        t \in Opt("timeout", {TStr("x")})}

ServerShapes ==
    {EmptyObject,
     ValidC.o,
     "servers" :> TArr(<<ValidA>>),
     "servers" :> TArr(<<NoPassword>>)}

\* the local and HTTP-proxy listen settings and the remaining top-level keys
LocalDocuments ==
    {TObj(la @@ lp @@ ha @@ hp @@ t @@ sh @@ f @@ d) :
        la \in Opt("local_address", {TStr("127.0.0.1"), TStr("localhost"), TInt(1)}),
        lp \in Opt("local_port", {TInt(1080), TInt(66616), TStr("1080")}),
        ha \in Opt("local_http_address", {TStr("::1"), TStr("localhost")}),
        hp \in Opt("local_http_port", {TInt(8080), TStr("8080")}),
        t \in Opt("timeout", {TStr("x")}),
        sh \in ServerShapes,
        f \in Opt("forbidden_ip",
                  {TInt(1),
                   TArr(<<TStr("10.0.0.1"), TInt(5), TStr("not-an-ip"), TStr("10.0.0.1"),
                          TStr("::1")>>)}),
        d \in Opt("dns_cache_capacity", {TInt(64), TStr("64")})}

\* text that is not JSON, and JSON whose root is not an object
RootDocuments == {TBad, TArr(<< >>), TInt(5)}

\* an entry that fails several checks at once
BadMethod ==
    TObj(("address" :> TInt(1)) @@ ("port" :> TStr("8388"))
         @@ ("method" :> TStr("not-a-cipher")))

\* three elements of 'servers', with failures at other stages of the load
OrderDocuments ==
    {TObj(("servers" :> TArr(<<e1, e2, e3>>)) @@ t @@ la @@ d) :
        e1 \in {ValidA, NoPassword, BadMethod, TInt(7)},
        e2 \in {ValidA, NoPassword, BadMethod, TInt(7)},
        e3 \in {ValidA, NoPassword, BadMethod, TInt(7)},
        t \in Opt("timeout", {TStr("x")}),
        la \in Opt("local_address", {TStr("127.0.0.1")}),
        d \in Opt("dns_cache_capacity", {TStr("64")})}

\* a global timeout next to the timeout of a server entry, in both shapes
TimeoutDocuments ==
    {TObj(("servers" :> TArr(<<TObj(ValidA.o @@ st)>>)) @@ gt) :
        gt \in Opt("timeout", {TInt(30), TInt(60)}),
        st \in Opt("timeout", {TInt(30), TInt(60)})}
    \cup {TObj(ValidC.o @@ gt @@ la) :
             gt \in Opt("timeout", {TInt(30), TInt(60)}),
             la \in Opt("local_address", {TStr("127.0.0.1")})}

---------------------------------------------------------------------------
(* The state machine: a document is loaded, the Config is displayed, and   *)
(* the text is loaded again.                                               *)

Init ==
    /\ pc = "start"
    /\ \/ input \in EntryDocuments
       \/ input \in ArrayDocuments
       \/ input \in LocalDocuments
       \/ input \in RootDocuments
       \/ input \in OrderDocuments
       \/ input \in TimeoutDocuments
    /\ config_type \in ConfigTypes
    /\ result = NoResult
    /\ text = NoText
    /\ reload_type = "None"
    /\ reloaded = NoResult

\* Config::load_from_str(input, config_type)
Load ==
    /\ pc = "start"
    /\ result' = load_from_str(input, config_type)
    /\ pc' = "loaded"
    /\ UNCHANGED <<input, config_type, text, reload_type, reloaded>>

\* format!("{}", config)
Display ==
    /\ pc \in {"loaded", "built"}
    /\ result.kind = "Ok"
    /\ text' = Config_to_string(result.val)
    /\ pc' = "serialized"
    /\ UNCHANGED <<input, config_type, result, reload_type, reloaded>>

\* Config::load_from_str(text, t)
Reload ==
    /\ pc = "serialized"
    /\ \E t \in ConfigTypes :
          /\ reload_type' = t
          /\ reloaded' = load_from_str(text, t)
    /\ pc' = "reloaded"
    /\ UNCHANGED <<input, config_type, result, text>>

Next == Load \/ Display \/ Reload

Spec == Init /\ [][Next]_vars

---------------------------------------------------------------------------
(* Configs built by a caller (every field of Config is public), displayed  *)
(* and loaded again.                                                       *)

BuiltAddrs ==
    {ServerAddr_SocketAddr(SocketAddrV4_new(<<10, 0, 0, 1>>, 8388)),
     ServerAddr_SocketAddr(SocketAddrV6_new(<<0, 0, 0, 0, 0, 0, 0, 1>>, 8389, 0, 0)),
     ServerAddr_SocketAddr(SocketAddrV6_new(<<8193, 3512, 0, 0, 0, 0, 0, 2>>, 65535, 7, 3)),
     ServerAddr_DomainName("example.com", 443),
     ServerAddr_DomainName("127.0.0.1", 80),
     ServerAddr_DomainName("::1", 0)}

BuiltTimeouts ==
    {None, Some(Duration_from_secs(300)), Some([secs |-> 1, nanos |-> 500000000])}

\* the servers of one-server Configs
SingleServers ==
    {ServerConfig(a, pw, m, t) :
        a \in BuiltAddrs, pw \in {"p", ""}, m \in CipherNames, t \in BuiltTimeouts}

\* the servers of the longer lists
ListServers ==
    {ServerConfig(ServerAddr_SocketAddr(SocketAddrV4_new(<<10, 0, 0, 1>>, 8388)),
                  "p", "aes-256-cfb", None),
     ServerConfig(ServerAddr_DomainName("example.com", 443),
                  "q", "aes-128-cfb", Some(Duration_from_secs(60))),
     ServerConfig(ServerAddr_SocketAddr(SocketAddrV6_new(<<0, 0, 0, 0, 0, 0, 0, 1>>, 8389, 0, 0)),
                  "p", "aes-128-cfb", Some([secs |-> 1, nanos |-> 500000000]))}

ServerLists ==
    {<<sc>> : sc \in SingleServers}
    \cup UNION {[1..n -> ListServers] : n \in 0..MaxServers}

BuiltConfigs ==
    {[server |-> sl, local |-> l, http_proxy |-> h, enable_udp |-> u, timeout |-> t,
      forbidden_ip |-> f, dns_cache_capacity |-> d] :
        sl \in ServerLists,
        l \in {None, Some(SocketAddrV4_new(<<127, 0, 0, 1>>, 1080)),
               Some(SocketAddrV6_new(<<0, 0, 0, 0, 0, 0, 0, 1>>, 1081, 0, 0))},
        h \in {None, Some(SocketAddrV4_new(<<127, 0, 0, 1>>, 8080))},
        u \in BOOLEAN,
        t \in {None, Some(Duration_from_secs(300)), Some(Duration_from_secs(60))},
        f \in {{}, {IpAddr_V4(<<10, 0, 0, 1>>)}},
        d \in {DEFAULT_DNS_CACHE_CAPACITY, 64}}

InitConfig ==
    /\ pc = "built"
    /\ input = NoInput
    /\ config_type = "None"
    /\ result \in {Ok(c) : c \in BuiltConfigs}
    /\ text = NoText
    /\ reload_type = "None"
    /\ reloaded = NoResult

NextConfig == Display \/ Reload

SpecConfig == InitConfig /\ [][NextConfig]_vars

---------------------------------------------------------------------------
(* Reading the input document, for the properties below *)

\* the root object of the input, or the empty object when there is none
RootObject ==
    IF input.k = "obj" /\ WellFormed(input) THEN BuildJson(input).o ELSE EmptyObject

\* the input is a document: JSON text whose root is an object
IsDocument == input.k = "obj" /\ WellFormed(input)

HasKey(k) == k \in DOMAIN RootObject

IsObject(j) == j.t = "Object"

LocalKeys == {"local_address", "local_port", "local_http_address", "local_http_port"}

\* the server entries of the document in the order the loader meets them:
\* the object elements of 'servers', or the root itself in the legacy shape
EntryObjects ==
    IF HasKey("servers")
    THEN IF RootObject["servers"].t = "Array"
         THEN LET objs == SelectSeq(RootObject["servers"].a, IsObject) IN
              [i \in 1..Len(objs) |-> objs[i].o]
         ELSE << >>
    ELSE IF LegacyKeyNames \subseteq DOMAIN RootObject THEN <<RootObject>>
    ELSE << >>

\* the value an entry gives for its port and for its address
WrittenPort(e) == IF "port" \in DOMAIN e THEN e["port"] ELSE e["server_port"]
WrittenAddress(e) == IF "address" \in DOMAIN e THEN e["address"] ELSE e["server"]
HasPort(e) == "port" \in DOMAIN e \/ "server_port" \in DOMAIN e
HasAddress(e) == "address" \in DOMAIN e \/ "server" \in DOMAIN e

\* the port of a ServerAddr
PortOf(addr) == IF addr.variant = "SocketAddr" THEN addr.addr.port ELSE addr.port

IsU64(j) == j.t = "U64" \/ (j.t = "I64" /\ j.n >= 0)
IsIpLiteral(str) == str \in DOMAIN Ipv4Table \/ str \in DOMAIN Ipv6Table

\* the document without some of its top-level keys
Without(doc, keys) == TObj([k \in (DOMAIN doc.o) \ keys |-> doc.o[k]])

\* the checks of the load that are not about servers
TimeoutOk == ~HasKey("timeout") \/ IsU64(RootObject["timeout"])
PairOk(addr_key, port_key) ==
    \/ ~HasKey(addr_key) /\ ~HasKey(port_key)
    \/ /\ HasKey(addr_key) /\ HasKey(port_key)
       /\ RootObject[addr_key].t = "String"
       /\ IsU64(RootObject[port_key])
       /\ IsIpLiteral(RootObject[addr_key].s)
LocalInfoOk ==
    config_type = "Local" =>
        PairOk("local_address", "local_port") /\ PairOk("local_http_address", "local_http_port")
ForbiddenIpOk == ~HasKey("forbidden_ip") \/ RootObject["forbidden_ip"].t = "Array"
DnsCacheCapacityOk == ~HasKey("dns_cache_capacity") \/ IsU64(RootObject["dns_cache_capacity"])
OtherChecksPass == TimeoutOk /\ LocalInfoOk /\ ForbiddenIpOk /\ DnsCacheCapacityOk

---------------------------------------------------------------------------
(* C1.  A port that does not fit in 16 bits is never accepted: every       *)
(* server of a loaded Config carries exactly the port number written in    *)
(* its entry of the document (an entry with a port above 65535 is          *)
(* rejected as Malformed, so no Config is returned for it).                *)
C1_PortAsWritten ==
    (pc = "loaded" /\ result.kind = "Ok") =>
        /\ Len(result.val.server) = Len(EntryObjects)
        /\ \A i \in 1..Len(EntryObjects) :
              LET e == EntryObjects[i] IN
              /\ IsU64(WrittenPort(e))
              /\ WrittenPort(e).n <= 65535
              /\ PortOf(result.val.server[i].addr) = WrittenPort(e).n

---------------------------------------------------------------------------
(* C2 *)

ExactlyOneLocal == HasKey("local_address") # HasKey("local_port")
ExactlyOneHttp == HasKey("local_http_address") # HasKey("local_http_port")

\* the checks that run before the local settings are looked at
EarlierCheckFails == ~TimeoutOk \/ parse_servers(RootObject, Config_new).kind = "Err"
LocalPairFails ==
    /\ HasKey("local_address") /\ HasKey("local_port")
    /\ ~PairOk("local_address", "local_port")

(* C2 as stated.  Under Local mode a document with exactly one key of the  *)
(* local pair, or exactly one key of the HTTP-proxy pair, always           *)
(* terminates the load, whatever else it contains.                         *)
C2_AlwaysTerminates ==
    (pc = "loaded" /\ config_type = "Local" /\ (ExactlyOneLocal \/ ExactlyOneHttp)) =>
        result.kind = "Panic"

(* C2 amended.  Under Local mode a document with exactly one key of a pair *)
(* never yields a Config: the load terminates, unless a check that runs    *)
(* earlier (global timeout, server entries, and for the HTTP-proxy pair    *)
(* the local pair's values) fails first, and then the load returns that    *)
(* check's Error.                                                          *)
C2_TerminatesUnlessEarlierError ==
    (pc = "loaded" /\ config_type = "Local") =>
        /\ ExactlyOneLocal =>
              result.kind = (IF EarlierCheckFails THEN "Err" ELSE "Panic")
        /\ (ExactlyOneHttp /\ ~ExactlyOneLocal) =>
              result.kind = (IF EarlierCheckFails \/ LocalPairFails THEN "Err" ELSE "Panic")

C2_Witness ==
    /\ pc = "loaded" /\ config_type = "Local"
    /\ ExactlyOneHttp /\ ~ExactlyOneLocal
    /\ HasKey("local_address")
    /\ Len(EntryObjects) = 1
    /\ result.kind = "Panic"

---------------------------------------------------------------------------
(* C3 *)

\* what the round trip compares of an address: variant, host and port
AddrView(addr) ==
    IF addr.variant = "SocketAddr"
    THEN <<"SocketAddr", addr.addr.fam, addr.addr.ip, addr.addr.port>>
    ELSE <<"DomainName", addr.name, <<>>, addr.port>>

SameServer(a, b) ==
    /\ AddrView(a.addr) = AddrView(b.addr)
    /\ a.password = b.password
    /\ a.method = b.method
    /\ a.timeout = b.timeout

RoundTripsAsOneServer ==
    /\ reloaded.kind = "Ok"
    /\ Len(reloaded.val.server) = 1
    /\ SameServer(result.val.server[1], reloaded.val.server[1])

(* C3 as stated.  Every one-server Config, displayed and loaded again,     *)
(* comes back as a Config with one server that has the same address        *)
(* (variant, host, port), password, method and timeout.                    *)
C3_RoundTrip ==
    (pc = "reloaded" /\ Len(result.val.server) = 1) => RoundTripsAsOneServer

\* a server whose address names itself in the document and whose timeout is
\* a whole number of seconds
Reloadable(server) ==
    /\ server.addr.variant = "DomainName" => ~IsIpLiteral(server.addr.name)
    /\ server.timeout.some => server.timeout.v.nanos = 0

(* C3 amended.  A one-server Config round-trips when its address is a      *)
(* SocketAddr, or a DomainName whose name is not itself an IPv4 or IPv6    *)
(* literal, and its timeout is absent or a whole number of seconds.        *)
C3_RoundTripOfReloadable ==
    (pc = "reloaded" /\ Len(result.val.server) = 1 /\ Reloadable(result.val.server[1])) =>
        RoundTripsAsOneServer

C3_Witness ==
    /\ pc = "reloaded"
    /\ Len(result.val.server) = 1
    /\ result.val.server[1].addr.variant = "DomainName"
    /\ result.val.server[1].timeout.some
    /\ result.val.http_proxy.some
    /\ reload_type = "Local"
    /\ RoundTripsAsOneServer

---------------------------------------------------------------------------
(* C4 *)

\* 'servers' is an array whose object elements all pass the server parser
ServersAllValid ==
    /\ HasKey("servers")
    /\ RootObject["servers"].t = "Array"
    /\ \A i \in 1..Len(EntryObjects) : parse_server(EntryObjects[i]).kind = "Ok"

\* the i-th server is the parse of the i-th object element
ServersInArrayOrder ==
    /\ result.kind = "Ok"
    /\ Len(result.val.server) = Len(EntryObjects)
    /\ \A i \in 1..Len(EntryObjects) :
          result.val.server[i] = parse_server(EntryObjects[i]).val

(* C4 as stated.  Every document whose 'servers' array holds N objects     *)
(* that pass the server parser, with non-objects in between, loads to a    *)
(* Config with exactly those N servers in array order.                     *)
C4_ValidArrayLoads ==
    (pc = "loaded" /\ ServersAllValid) => ServersInArrayOrder

(* C4 amended.  Such a document loads to those N servers in array order    *)
(* when its other settings pass their checks (global timeout; under Local  *)
(* mode the two address/port pairs; forbidden_ip; dns_cache_capacity);     *)
(* when one of them does not, the load yields no Config.                   *)
C4_ValidArrayLoadsWhenRestValid ==
    (pc = "loaded" /\ ServersAllValid) =>
        IF OtherChecksPass THEN ServersInArrayOrder ELSE result.kind # "Ok"

C4_Witness ==
    /\ pc = "loaded"
    /\ ServersAllValid /\ OtherChecksPass
    /\ Len(RootObject["servers"].a) = 2
    /\ ~IsObject(RootObject["servers"].a[1])
    /\ Len(EntryObjects) = 1
    /\ ServersInArrayOrder

---------------------------------------------------------------------------
(* C5.  When 'servers' is present the load does not read the top-level     *)
(* legacy keys: its outcome is the outcome for the same document without   *)
(* 'server', 'server_port', 'password' and 'method'.                       *)
C5_LegacyKeysIgnored ==
    (pc = "loaded" /\ HasKey("servers")) =>
        result = load_from_str(Without(input, LegacyKeyNames), config_type)

C5_Witness ==
    /\ pc = "loaded"
    /\ HasKey("servers")
    /\ LegacyKeyNames \subseteq DOMAIN RootObject
    /\ RootObject["method"] = JString("not-a-cipher")
    /\ RootObject["server"].t # "String"
    /\ result.kind = "Ok"
    /\ Len(result.val.server) = 2

---------------------------------------------------------------------------
(* C6.  The text of a Config does not depend on its forbidden_ip set, its  *)
(* global timeout or its http_proxy address, and the Config loaded from    *)
(* the text takes none of the three from the original: its forbidden_ip    *)
(* is empty, its http_proxy is None and its global timeout is the          *)
(* top-level 'timeout' of the text, which is the single server's.          *)
Scrubbed(config) ==
    [config EXCEPT !.forbidden_ip = {}, !.timeout = None, !.http_proxy = None]

C6_SerializerIgnoresThree ==
    /\ pc \in {"serialized", "reloaded"} => text = Config_to_string(Scrubbed(result.val))
    /\ pc = "reloaded" =>
          /\ reloaded.kind = "Ok"
          /\ reloaded.val.forbidden_ip = {}
          /\ reloaded.val.http_proxy = None
          /\ reloaded.val.timeout =
                (IF Len(result.val.server) = 1 /\ result.val.server[1].timeout.some
                 THEN Some(Duration_from_secs(result.val.server[1].timeout.v.secs))
                 ELSE None)

C6_Witness ==
    /\ pc = "reloaded"
    /\ result.val.forbidden_ip # {}
    /\ result.val.timeout.some
    /\ result.val.http_proxy.some
    /\ Len(result.val.server) = 2
    /\ reloaded.kind = "Ok"
    /\ reloaded.val.timeout = None

---------------------------------------------------------------------------
(* C7 *)

\* the address a string and a port stand for
ExpectedAddr(str, port) ==
    IF str \in DOMAIN Ipv4Table
    THEN ServerAddr_SocketAddr(SocketAddrV4_new(Ipv4Table[str], port))
    ELSE IF str \in DOMAIN Ipv6Table
    THEN ServerAddr_SocketAddr(SocketAddrV6_new(Ipv6Table[str], port, 0, 0))
    ELSE ServerAddr_DomainName(str, port)

ExpectedTimeout ==
    IF HasKey("timeout")
    THEN Some([secs |-> RootObject["timeout"].n, nanos |-> 0])
    ELSE None

IsValidPort(j) == IsU64(j) /\ j.n <= 65535
IsKnownCipher(j) == j.t = "String" /\ j.s \in CipherNames

\* the root is a legacy entry: one server with the given address and port
LoadsSingleServer(addr_j, port_j) ==
    /\ result.kind = "Ok"
    /\ Len(result.val.server) = 1
    /\ result.val.server[1] =
          ServerConfig(ExpectedAddr(addr_j.s, port_j.n), RootObject["password"].s,
                       RootObject["method"].s, ExpectedTimeout)

LoadsNoServer ==
    IF OtherChecksPass
    THEN result.kind = "Ok" /\ result.val.server = << >>
    ELSE result.kind # "Ok"

SomeLegacyKeyAbsent ==
    IsDocument /\ ~HasKey("servers") /\ ~(LegacyKeyNames \subseteq DOMAIN RootObject)

FourLegacyKeysValid ==
    /\ ~HasKey("servers")
    /\ LegacyKeyNames \subseteq DOMAIN RootObject
    /\ RootObject["server"].t = "String"
    /\ IsValidPort(RootObject["server_port"])
    /\ RootObject["password"].t = "String"
    /\ IsKnownCipher(RootObject["method"])

(* C7 as stated.  A document without 'servers' whose four legacy keys are  *)
(* present and valid loads to a Config with exactly one server, made of    *)
(* 'server', 'server_port', 'password', 'method' and 'timeout'; with one   *)
(* of the four keys absent the server list is empty, which is no error.    *)
C7_LegacyLoadsOneServer ==
    pc = "loaded" =>
        /\ FourLegacyKeysValid =>
              LoadsSingleServer(RootObject["server"], RootObject["server_port"])
        /\ SomeLegacyKeyAbsent => LoadsNoServer

\* the four keys are present and the values parse_server reads are valid:
\* 'port' and 'address', when present, are read instead of 'server_port'
\* and 'server'
LegacyEntryValid ==
    /\ ~HasKey("servers")
    /\ LegacyKeyNames \subseteq DOMAIN RootObject
    /\ WrittenAddress(RootObject).t = "String"
    /\ IsValidPort(WrittenPort(RootObject))
    /\ RootObject["password"].t = "String"
    /\ IsKnownCipher(RootObject["method"])

(* C7 amended.  Such a document loads to exactly one server when the other *)
(* settings pass their checks (a 'timeout' that is an unsigned integer,    *)
(* the local settings under Local mode, forbidden_ip, dns_cache_capacity), *)
(* and yields no Config otherwise; the server's address and port are those *)
(* of top-level 'address' and 'port' when these keys are present, and of   *)
(* 'server' and 'server_port' otherwise.  With one of the four keys absent *)
(* the server list is empty, which is no error.                            *)
C7_LegacyLoadsOneServerWhenRestValid ==
    pc = "loaded" =>
        /\ LegacyEntryValid =>
              IF OtherChecksPass
              THEN LoadsSingleServer(WrittenAddress(RootObject), WrittenPort(RootObject))
              ELSE result.kind # "Ok"
        /\ SomeLegacyKeyAbsent => LoadsNoServer

C7_Witness ==
    /\ pc = "loaded"
    /\ FourLegacyKeysValid /\ OtherChecksPass
    /\ HasKey("timeout") /\ ~HasKey("port") /\ ~HasKey("address")
    /\ LoadsSingleServer(RootObject["server"], RootObject["server_port"])

---------------------------------------------------------------------------
(* C8.  Under Server mode the four local-settings keys are not read: the   *)
(* outcome is that of the document without them, the load never            *)
(* terminates, and a loaded Config has local = None and http_proxy = None. *)
(* Under Local mode a pair whose two keys are present and valid sets the   *)
(* bind address to exactly that IP and port.                               *)

ExpectedBind(addr_key, port_key) ==
    Some(ExpectedAddr(RootObject[addr_key].s, RootObject[port_key].n).addr)

PairPresentValid(addr_key, port_key) ==
    /\ HasKey(addr_key) /\ HasKey(port_key)
    /\ RootObject[addr_key].t = "String"
    /\ IsIpLiteral(RootObject[addr_key].s)
    /\ IsValidPort(RootObject[port_key])

C8_LocalSettingsByMode ==
    pc = "loaded" =>
        /\ (config_type = "Server" /\ IsDocument) =>
              /\ result = load_from_str(Without(input, LocalKeys), "Server")
              /\ result.kind # "Panic"
              /\ result.kind = "Ok" =>
                    result.val.local = None /\ result.val.http_proxy = None
        /\ (config_type = "Local" /\ result.kind = "Ok") =>
              /\ PairPresentValid("local_address", "local_port") =>
                    result.val.local = ExpectedBind("local_address", "local_port")
              /\ PairPresentValid("local_http_address", "local_http_port") =>
                    result.val.http_proxy = ExpectedBind("local_http_address", "local_http_port")

C8_Witness ==
    /\ pc = "loaded" /\ config_type = "Server"
    /\ ExactlyOneLocal
    /\ HasKey("local_http_address") /\ HasKey("local_http_port")
    /\ RootObject["local_http_port"].t = "String"
    /\ result.kind = "Ok"

---------------------------------------------------------------------------
(* C10.  An entry with a string address and a valid port gets the          *)
(* SocketAddr variant exactly when the string is an IPv4 or IPv6 literal,  *)
(* and otherwise DomainName with the string unchanged, in both cases with  *)
(* the entry's port; a string address never makes the load fail with an    *)
(* address error.                                                          *)

AddressErrors == {"need to specify a server address", "'address' should be a string"}

StringAddress(e) == HasAddress(e) /\ WrittenAddress(e).t = "String"

C10_AddressVariant ==
    pc = "loaded" =>
        /\ result.kind = "Ok" =>
              \A i \in 1..Len(EntryObjects) :
                 LET e == EntryObjects[i]
                     addr == result.val.server[i].addr IN
                 (StringAddress(e) /\ IsValidPort(WrittenPort(e))) =>
                     /\ addr.variant = "SocketAddr" <=> IsIpLiteral(WrittenAddress(e).s)
                     /\ addr.variant = "DomainName" => addr.name = WrittenAddress(e).s
                     /\ PortOf(addr) = WrittenPort(e).n
        /\ (result.kind = "Err" /\ \A i \in 1..Len(EntryObjects) : StringAddress(EntryObjects[i])) =>
              result.error.desc \notin AddressErrors

C10_Witness ==
    /\ pc = "loaded" /\ result.kind = "Ok"
    /\ Len(EntryObjects) = 1
    /\ WrittenAddress(EntryObjects[1]) = JString("256.0.0.1")
    /\ result.val.server[1].addr = ServerAddr_DomainName("256.0.0.1", 65535)

---------------------------------------------------------------------------
(* C9.  The shape of the text follows from the server count alone: with    *)
(* exactly one server the top-level keys 'server', 'server_port',          *)
(* 'password', 'method' (and 'timeout' iff the server has one) and no      *)
(* 'servers'; with zero, two or more servers a 'servers' array with one    *)
(* element per server in list order (keys 'address', 'port', 'password',   *)
(* 'method', and 'timeout' iff the server has one) and none of the four    *)
(* top-level server keys; 'enable_udp' and 'dns_cache_capacity' always.    *)

\* the host an address is written as
HostText(addr) ==
    IF addr.variant = "DomainName" THEN addr.name
    ELSE IF addr.addr.fam = "V4" THEN Ipv4Addr_to_string(addr.addr.ip)
    ELSE Ipv6Addr_to_string(addr.addr.ip)

\* the object o writes the server under the given address and port keys
WritesServer(o, server, addr_key, port_key) ==
    /\ {addr_key, port_key, "password", "method"} \subseteq DOMAIN o
    /\ o[addr_key] = TStr(HostText(server.addr))
    /\ o[port_key] = TInt(PortOf(server.addr))
    /\ o["password"] = TStr(server.password)
    /\ o["method"] = TStr(server.method)
    /\ "timeout" \in DOMAIN o <=> server.timeout.some
    /\ server.timeout.some => o["timeout"] = TInt(server.timeout.v.secs)

C9_ShapeByServerCount ==
    pc \in {"serialized", "reloaded"} =>
        LET server == result.val.server
            o == text.o IN
        /\ text.k = "obj"
        /\ {"enable_udp", "dns_cache_capacity"} \subseteq DOMAIN o
        /\ IF Len(server) = 1
           THEN /\ "servers" \notin DOMAIN o
                /\ WritesServer(o, server[1], "server", "server_port")
           ELSE /\ "servers" \in DOMAIN o
                /\ LegacyKeyNames \cap DOMAIN o = {}
                /\ o["servers"].k = "arr"
                /\ Len(o["servers"].a) = Len(server)
                /\ \A i \in 1..Len(server) :
                      /\ o["servers"].a[i].k = "obj"
                      /\ DOMAIN o["servers"].a[i].o \subseteq
                            {"address", "port", "password", "method", "timeout"}
                      /\ WritesServer(o["servers"].a[i].o, server[i], "address", "port")

C9_Witness ==
    /\ pc = "serialized"
    /\ Len(result.val.server) = 2
    /\ result.val.server[1] # result.val.server[2]
    /\ result.val.server[2].timeout.some
    /\ "servers" \in DOMAIN text.o
    /\ "timeout" \in DOMAIN text.o["servers"].a[2].o

---------------------------------------------------------------------------
(* C11 *)

\* the checks of one entry, in the order claimed; the address check does
\* not depend on the port
EntryChecks(e) ==
    <<parse_method(e), parse_port(e), parse_addr(e, 0), parse_password(e), parse_timeout(e)>>

\* the checks of the server section: the shape of 'servers', then the
\* entries in array order
ServerChecks(o, entries) ==
    IF "servers" \in DOMAIN o /\ o["servers"].t # "Array"
    THEN <<Err(Error("Malformed", "'servers' should be a list", None))>>
    ELSE LET checks == [i \in 1..Len(entries) |-> EntryChecks(entries[i])] IN
         [k \in 1..(5 * Len(entries)) |-> checks[((k - 1) \div 5) + 1][((k - 1) % 5) + 1]]

\* the checks of the two listen pairs, made under Local mode only
LocalChecks(o, require_local_info) ==
    IF require_local_info
    THEN <<parse_local(o, Config_new), parse_http_proxy(o, Config_new)>>
    ELSE << >>

\* every check of a document, each made on its own, in the order claimed
DocumentChecks(o, entries, require_local_info) ==
    <<parse_global_timeout(o, Config_new)>>
    \o ServerChecks(o, entries)
    \o LocalChecks(o, require_local_info)
    \o <<parse_forbidden_ip(o, Config_new), parse_dns_cache_capacity(o, Config_new)>>

IsFailure(r) == r.kind # "Ok"

\* the outcome the order of the checks gives: the first failure, or Ok
FirstFailure(checks) ==
    LET failed == SelectSeq(checks, IsFailure) IN
    IF failed = << >> THEN Ok("complete") ELSE failed[1]

\* a Config with every section of the document in it
CompleteConfig ==
    /\ result.kind = "Ok"
    /\ result.val.timeout = parse_global_timeout(RootObject, Config_new).val.timeout
    /\ result.val.server =
          [i \in 1..Len(EntryObjects) |-> parse_server(EntryObjects[i]).val]
    /\ result.val.local =
          (IF config_type = "Local" THEN parse_local(RootObject, Config_new).val.local
           ELSE None)
    /\ result.val.http_proxy =
          (IF config_type = "Local"
           THEN parse_http_proxy(RootObject, Config_new).val.http_proxy
           ELSE None)
    /\ result.val.forbidden_ip = parse_forbidden_ip(RootObject, Config_new).val.forbidden_ip
    /\ result.val.dns_cache_capacity =
          parse_dns_cache_capacity(RootObject, Config_new).val.dns_cache_capacity
    /\ result.val.enable_udp = Config_new.enable_udp

\* the load ends as the first failing check does, and with a complete
\* Config when no check fails
EndsAsFirstFailure ==
    LET first == FirstFailure(DocumentChecks(RootObject, EntryObjects, config_type = "Local")) IN
    IF first.kind = "Ok" THEN CompleteConfig ELSE result = first

(* C11 as stated.  Every load returns a complete Config or a single Error, *)
(* and the Error is that of the earliest failing check in the order global *)
(* timeout, server entries in array order (method, port, address,          *)
(* password, timeout within an entry), local pair, HTTP-proxy pair,        *)
(* forbidden_ip shape, dns_cache_capacity.                                 *)
C11_ConfigOrFirstError ==
    pc = "loaded" =>
        /\ result.kind \in {"Ok", "Err"}
        /\ IsDocument => EndsAsFirstFailure

(* C11 amended.  The outcome of a load is that of the earliest failing     *)
(* check in that order, and a complete Config when no check fails; the     *)
(* outcome of a failing check is its Error, except that a lone key of the  *)
(* local pair or of the HTTP-proxy pair under Local mode terminates the    *)
(* load, so that a load returns a Config, returns an Error or terminates.  *)
(* Text that is not JSON, or whose root is not an object, is an Error      *)
(* before any of these checks.                                             *)
C11_FirstFailureWins ==
    pc = "loaded" =>
        /\ result.kind \in {"Ok", "Err", "Panic"}
        /\ result.kind = "Panic" =>
              config_type = "Local" /\ (ExactlyOneLocal \/ ExactlyOneHttp)
        /\ ~IsDocument => result.kind = "Err"
        /\ IsDocument => EndsAsFirstFailure

\* a failing entry between two valid ones, with later checks failing too
C11_Witness ==
    /\ pc = "loaded" /\ config_type = "Local"
    /\ HasKey("servers") /\ RootObject["servers"].t = "Array"
    /\ Len(EntryObjects) = 3
    /\ parse_server(EntryObjects[1]).kind = "Ok"
    /\ parse_server(EntryObjects[2]).kind = "Err"
    /\ parse_server(EntryObjects[3]).kind = "Ok"
    /\ ExactlyOneLocal
    /\ ~DnsCacheCapacityOk
    /\ result = parse_server(EntryObjects[2])

---------------------------------------------------------------------------
(* C12 *)

\* the timeout an object of a loaded document gives under its 'timeout' key
TimeoutWritten(o) ==
    IF "timeout" \in DOMAIN o
    THEN Some([secs |-> o["timeout"].n, nanos |-> 0])
    ELSE None

\* the legacy single-server shape, and the 'servers' shape
LegacyShape == IsDocument /\ ~HasKey("servers") /\ LegacyKeyNames \subseteq DOMAIN RootObject
ServersShape == IsDocument /\ HasKey("servers")

(* C12.  A Config loaded from a legacy-shape document has one server, and  *)
(* its global timeout equals that server's timeout: both are the value of  *)
(* the top-level 'timeout' key, or both None when the key is absent.  In   *)
(* the 'servers' shape the global timeout is the top-level key's and each  *)
(* server's timeout is its own entry's, whatever the other is.             *)
C12_LegacyTimeoutReadTwice ==
    (pc = "loaded" /\ result.kind = "Ok") =>
        /\ LegacyShape =>
              /\ Len(result.val.server) = 1
              /\ result.val.timeout = result.val.server[1].timeout
              /\ result.val.timeout = TimeoutWritten(RootObject)
        /\ ServersShape =>
              /\ result.val.timeout = TimeoutWritten(RootObject)
              /\ Len(result.val.server) = Len(EntryObjects)
              /\ \A i \in 1..Len(EntryObjects) :
                    result.val.server[i].timeout = TimeoutWritten(EntryObjects[i])

C12_Witness ==
    /\ pc = "loaded" /\ result.kind = "Ok"
    /\ LegacyShape
    /\ HasKey("timeout")
    /\ result.val.timeout = Some(Duration_from_secs(30))
    /\ result.val.server[1].timeout = Some(Duration_from_secs(30))

====
